---------------------------- MODULE Spec2Model ----------------------------
(***************************************************************************)
(* Dataset composition service of selfdriving-api.                         *)
(*                                                                         *)
(* The store is the pair of tables dataset / dataset_member.  Each action  *)
(* is one service call of app/services/dataset.py executed to completion   *)
(* (request-per-call, one transaction per call); `last` records the call   *)
(* and the outcome the caller sees.                                        *)
(*                                                                         *)
(* Requests are the ones the pydantic schemas of app/schemas/dataset.py    *)
(* accept: item_type in {None, 1, 2, 3}, source_type in {1, 2}.  The       *)
(* service itself compares against the constants of app/models/dataset.py  *)
(* (COMPOSED = 0, EXTERNAL_FILE = 1) and against the literals 0, 1, 2 for  *)
(* item types; both encodings are kept as they are in the source.          *)
(*                                                                         *)
(* The database outlives the process (db_init.py, production mode, only    *)
(* verifies that the tables exist), so the initial store may already hold  *)
(* dataset rows of source_type COMPOSED (the column default) without       *)
(* members.                                                                *)
(*                                                                         *)
(* Further specifications: SpecListItems (one list_items request of        *)
(* app/routers/datasets.py over a stored graph), SpecConcurrent (two       *)
(* add_items requests at the same time), SpecScenes (create_scene and      *)
(* update_scene of app/services/scene.py) and SpecBulk (the bulk creates   *)
(* of the datastream, vehicle, driver, pipeline, measurement and pipeline  *)
(* state services).                                                        *)
(***************************************************************************)
EXTENDS Integers, Sequences, FiniteSets, TLC

VARIABLES datasets, members, last, before, graph, walk, txns,
          scenes, rows, reply

vars == <<datasets, members, last, before, graph, walk, txns,
          scenes, rows, reply>>

---------------------------------------------------------------------------
(* Bounds *)

\* longest item list of a request
MaxItems == 2
\* most members of a dataset in the graphs list_items walks
MaxMembers == 2
\* depth of nested dfs calls the interpreter allows
RecursionLimit == 4
\* most dataset_member rows the store holds
MaxRows == 2

---------------------------------------------------------------------------
(* Program constants *)

\* schemas/dataset.py DatasetItemKind
DatasetItemKind_DATASTREAM == 1
DatasetItemKind_SCENE == 2
DatasetItemKind_DATASET == 3
\* DatasetItem.item_type = None ("null permitted for untyped entries")
NULL == -1

\* schemas/dataset.py DatasetSourceKind (what the request schema accepts)
DatasetSourceKind_COMPOSED == 1
DatasetSourceKind_EXTERNAL_FILE == 2

\* models/dataset.py DatasetSourceType (what the service compares against)
DatasetSourceType_COMPOSED == 0
DatasetSourceType_EXTERNAL_FILE == 1

\* schemas/dataset.py DatasetStateKind
DatasetStateKind_READY == 2

\* models/dataset.py DatasetStatus
DatasetStatus_CREATING == 0
DatasetStatus_READY == 1

\* the item_type literals _touch_counts, _validate_members_exist and
\* _detect_cycle use
TypeLiteral_datastream == 0
TypeLiteral_scene == 1
TypeLiteral_dataset == 2

---------------------------------------------------------------------------
(* Value spaces *)

\* UUIDs that can name a dataset row ("u1", the fourth UUID of the
\* requests, never does)
DatasetIds == {"d1", "d2", "d3"}

\* DatasetItem: item_type is None or ge=1, le=3; item_id any UUID.
\* An item is <<item_type, item_id>>.
ItemSeq ==
    << <<NULL, "u1">>, <<DatasetItemKind_DATASTREAM, "u1">>,
       <<DatasetItemKind_SCENE, "d1">>, <<DatasetItemKind_SCENE, "d2">>,
       <<DatasetItemKind_SCENE, "d3">>,
       <<DatasetItemKind_DATASET, "d1">>, <<DatasetItemKind_DATASET, "d2">>,
       <<DatasetItemKind_DATASET, "d3">> >>

Items == {ItemSeq[i] : i \in DOMAIN ItemSeq}

\* The item lists of the requests.  No handler depends on the order of the
\* list, so one list stands for all its permutations.
ItemLists ==
    UNION {{[i \in 1..n |-> ItemSeq[s[i]]] :
              s \in {t \in [1..n -> DOMAIN ItemSeq] :
                       \A i \in 1..n, j \in 1..n : i < j => t[i] <= t[j]}} :
           n \in 0..MaxItems}

\* A dataset_member row is <<dataset_id, item_type, item_id, n>>: n tells
\* apart the rows of one dataset that carry the same item (each row has its
\* own primary key).  The table is the set of its rows.

\* file_path values of a request: absent, blank, a padded path
None == "None"
FilePaths == {None, " ", " x "}

\* str.strip() on the file paths above
strip(s) == CASE s = " " -> ""
              [] s = " x " -> "x"
              [] OTHER -> s

\* number of dataset_member rows in the table
TotalRows(m) == Cardinality(m)

\* the rows of dataset d
RowsOf(m, d) == {r \in m : r[1] = d}

\* the rows of dataset d that carry item it
RowsWith(m, d, it) == {r \in m : r[1] = d /\ r[2] = it[1] /\ r[3] = it[2]}

\* the items of a list, as a set
Range(items) == {items[i] : i \in 1..Len(items)}

NoMembers == {}

---------------------------------------------------------------------------
(* Helpers of DatasetService *)

\* select item_type, count(*) ... where dataset_id = d group by item_type,
\* then counts.get(t, 0)
counts_get(m, d, t) == Cardinality({r \in m : r[1] = d /\ r[2] = t})

\* updated_at is kept relative to the call in progress: Earlier is any
\* time before the call began, Now the time of the call.  No handler reads
\* the column.
Earlier == 0
Now == 1

\* ds.save(): self.updated_at = utcnow()
save(row) == [row EXCEPT !.updated_at = Now]

_touch_counts(ds, m, d) ==
    IF d \notin DOMAIN ds THEN ds
    ELSE [ds EXCEPT
            ![d] = save([@ EXCEPT
                !.datastream_count = counts_get(m, d, TypeLiteral_datastream),
                !.scene_count = counts_get(m, d, TypeLiteral_scene),
                !.dataset_count = counts_get(m, d, TypeLiteral_dataset)])]

\* ids of the items of the list whose item_type is t
ids_of_type(items, t) == {it[2] : it \in {x \in Range(items) : x[1] = t}}

\* TRUE when _validate_members_exist returns, FALSE when it raises
\* BadRequestException("Some dataset IDs do not exist")
_validate_members_exist(ds, items) ==
    LET dt_ids == ids_of_type(items, TypeLiteral_dataset)
    IN ~(Cardinality(dt_ids \cap DOMAIN ds) < Cardinality(dt_ids))

\* select dataset_id from dataset_member where item_type = 2 and item_id = t
parents_of(m, t) ==
    {r[1] : r \in {x \in m : x[2] = TypeLiteral_dataset /\ x[3] = t}}

RECURSIVE collect_ancestors(_, _, _), visit_parents(_, _, _)
\* for pid in parents: if pid not in ancestors: add it and recurse
visit_parents(m, ps, ancestors) ==
    IF ps = {} THEN ancestors
    ELSE LET pid == CHOOSE p \in ps : TRUE
             anc == IF pid \notin ancestors
                    THEN collect_ancestors(m, pid, ancestors \cup {pid})
                    ELSE ancestors
         IN visit_parents(m, ps \ {pid}, anc)
collect_ancestors(m, target, ancestors) ==
    visit_parents(m, parents_of(m, target), ancestors)

\* TRUE when _detect_cycle returns, FALSE when it raises
\* BadRequestException("Adding this nested dataset would create a cycle")
_detect_cycle(m, parent, items) ==
    LET nested_ids == ids_of_type(items, TypeLiteral_dataset)
        ancestors == collect_ancestors(m, parent, {})
    IN \A nid \in nested_ids : ~(nid = parent \/ nid \in ancestors)

\* session.add(DatasetMemberModel(...)) for each item of the list
RECURSIVE insert_members(_, _, _)
insert_members(m, d, items) ==
    IF items = <<>> THEN m
    ELSE LET it == Head(items)
             row == <<d, it[1], it[2], Cardinality(RowsWith(m, d, it)) + 1>>
         IN insert_members(m \cup {row}, d, Tail(items))

\* uq_dataset_member_unique (dataset_id, item_type, item_id), checked at
\* flush: two rows collide when the three columns are equal, and a NULL
\* item_type is equal to nothing
unique_ok(m) ==
    \A r1 \in m : \A r2 \in m :
        (r1 # r2 /\ r1[1] = r2[1] /\ r1[3] = r2[3])
            => ~(r1[2] # NULL /\ r2[2] # NULL /\ r1[2] = r2[2])

---------------------------------------------------------------------------
(* Rows and results *)

\* DatasetModel(...): the counters default to 0, updated_at to utcnow()
DatasetModel(source_type, status, file_path) ==
    [source_type |-> source_type, status |-> status, file_path |-> file_path,
     datastream_count |-> 0, scene_count |-> 0, dataset_count |-> 0,
     updated_at |-> Now]

\* the rows as the next call finds them: every updated_at is in its past
settled(ds) == [d \in DOMAIN ds |-> [ds[d] EXCEPT !.updated_at = Earlier]]

\* what a call leaves: the outcome the caller sees and the committed tables
Result(outcome, ds, m) == [outcome |-> outcome, datasets |-> ds, members |-> m]

\* An exception inside the transaction, then session.rollback(): the
\* tables as they were when the call began.  A handler is a set of results,
\* one for each way the database can answer.
rollback(outcome, ds, m) == {Result(outcome, ds, m)}

\* An exception raised before the handler touched the session
raises(outcome, ds, m) == {Result(outcome, ds, m)}

\* session.commit() followed by session.refresh(dataset), both inside the
\* handler's try: the commit succeeds and so does the refresh; the commit
\* raises SQLAlchemyError (rollback, InternalServerException); the commit
\* succeeds and the refresh raises SQLAlchemyError (the rollback undoes
\* nothing, InternalServerException)
commit(ds0, m0, ds, m) ==
    {Result("ok", ds, m), Result("internal", ds0, m0), Result("internal", ds, m)}

---------------------------------------------------------------------------
(* DatasetService.create *)

CreatePayloads ==
    [source_type : {DatasetSourceKind_COMPOSED, DatasetSourceKind_EXTERNAL_FILE},
     file_path : FilePaths,
     items : ItemLists]

\* the payloads a caller of the service can build: source_type as the
\* service reads it (DatasetSourceType) next to the values of the schema
ServiceCreatePayloads ==
    [source_type : {DatasetSourceType_COMPOSED, DatasetSourceKind_COMPOSED,
                    DatasetSourceKind_EXTERNAL_FILE},
     file_path : FilePaths,
     items : ItemLists]

\* payload.file_path as create stores it
create_file_path(payload) ==
    LET stripped == strip(IF payload.file_path = None THEN ""
                          ELSE payload.file_path)
    IN IF payload.source_type = DatasetSourceType_EXTERNAL_FILE THEN stripped
       ELSE IF payload.file_path # None /\ stripped = "" THEN None
       ELSE payload.file_path

\* TRUE when the checks ahead of the transaction raise BadRequestException
create_rejects(payload) ==
    /\ payload.source_type = DatasetSourceType_EXTERNAL_FILE
    /\ \/ create_file_path(payload) = ""
       \/ payload.items # <<>>

\* the row create builds
create_row(payload) ==
    DatasetModel(payload.source_type,
                 IF payload.source_type = DatasetSourceType_COMPOSED
                 THEN DatasetStatus_CREATING ELSE DatasetStatus_READY,
                 create_file_path(payload))

\* with self.session.begin(): ... ; self.session.refresh(dataset)
create_transaction(ds, m, new_id, payload) ==
    LET ds1 == ds @@ (new_id :> create_row(payload))
        items == payload.items
        m1 == insert_members(m, new_id, items)
        ds2 == [_touch_counts(ds1, m1, new_id)
                  EXCEPT ![new_id].status = DatasetStatus_READY]
    IN  IF ds1[new_id].source_type # DatasetSourceType_COMPOSED
             THEN commit(ds, m, ds1, m)
        ELSE IF items # <<>> /\ ~_validate_members_exist(ds1, items)
             THEN rollback("bad_request", ds, m)
        ELSE IF items # <<>> /\ ~_detect_cycle(m, new_id, items)
             THEN rollback("bad_request", ds, m)
        ELSE IF ~unique_ok(m1) THEN rollback("conflict", ds, m)
        ELSE commit(ds, m, ds2, m1)

\* the same handler with the request checked after the row was added to
\* the session, and the session committed on the way out
create_checks_late(ds, m, new_id, payload) ==
    IF create_rejects(payload)
    THEN {Result("bad_request", ds @@ (new_id :> create_row(payload)), m)}
    ELSE create_transaction(ds, m, new_id, payload)

create(ds, m, new_id, payload) ==
    IF create_rejects(payload) THEN raises("bad_request", ds, m)
    ELSE create_transaction(ds, m, new_id, payload)

---------------------------------------------------------------------------
(* DatasetService.update *)

\* a payload class that declares the attribute update reads
DatasetUpdate_declares_status == TRUE

\* DatasetUpdate declares the field `state` (aliases are for input only);
\* update reads payload.status, an attribute the payload does not have
DatasetUpdate_has_status == FALSE

\* replace_items = None is has_replace_items = FALSE
UpdatePayloads ==
    [state : {NULL}, file_path : {None},
     has_replace_items : {TRUE},
     replace_items : {l \in ItemLists : Len(l) <= 1}]
    \cup
    [state : {NULL, DatasetStatus_READY}, file_path : FilePaths,
     has_replace_items : {FALSE}, replace_items : {<<>>}]

\* delete from dataset_member where dataset_id = d
delete_all_members(m, d) == {r \in m : r[1] # d}

update(ds, m, d, payload) ==
    IF d \notin DOMAIN ds THEN raises("not_found", ds, m)
    ELSE IF ~DatasetUpdate_has_status THEN rollback("error", ds, m)
    ELSE
    LET dataset == ds[d]
        is_file == dataset.source_type = DatasetSourceType_EXTERNAL_FILE
        cleaned == IF payload.file_path = None THEN "" ELSE strip(payload.file_path)
        ds1 == IF payload.state = NULL THEN ds
               ELSE [ds EXCEPT ![d].status = payload.state]
        ds2 == IF payload.file_path = None THEN ds1
               ELSE [ds1 EXCEPT ![d].file_path =
                        IF is_file THEN cleaned
                        ELSE IF cleaned = "" THEN None ELSE cleaned]
        items == payload.replace_items
        m1 == insert_members(delete_all_members(m, d), d, items)
        ds3 == _touch_counts(ds2, m1, d)
    IN  IF payload.file_path # None /\ is_file /\ cleaned = ""
             THEN rollback("bad_request", ds, m)
        ELSE IF ~payload.has_replace_items THEN commit(ds, m, ds2, m)
        ELSE IF dataset.source_type # DatasetSourceType_COMPOSED
             THEN rollback("bad_request", ds, m)
        ELSE IF items # <<>> /\ ~_validate_members_exist(ds, items)
             THEN rollback("bad_request", ds, m)
        ELSE IF items # <<>> /\ ~_detect_cycle(m, d, items)
             THEN rollback("bad_request", ds, m)
        ELSE IF ~unique_ok(m1) THEN rollback("conflict", ds, m)
        ELSE commit(ds, m, ds3, m1)

---------------------------------------------------------------------------
(* DatasetService.add_items / remove_items *)

\* the same handler committing after each item: a list that collides on a
\* later item leaves the first one attached
add_items_commit_each(ds, m, d, items) ==
    IF d \notin DOMAIN ds THEN raises("not_found", ds, m)
    ELSE IF ds[d].source_type # DatasetSourceType_COMPOSED
         THEN raises("bad_request", ds, m)
    ELSE IF items = <<>> THEN {Result("ok", ds, m)}
    ELSE IF ~_validate_members_exist(ds, items)
         THEN rollback("bad_request", ds, m)
    ELSE IF ~_detect_cycle(m, d, items) THEN rollback("bad_request", ds, m)
    ELSE LET m1 == insert_members(m, d, items)
             mp == insert_members(m, d, <<Head(items)>>)
         IN IF ~unique_ok(m1)
            THEN IF unique_ok(mp)
                 THEN {Result("conflict", _touch_counts(ds, mp, d), mp)}
                 ELSE rollback("conflict", ds, m)
            ELSE commit(ds, m, _touch_counts(ds, m1, d), m1)

\* the same handler going through flush, _touch_counts and commit for an
\* empty list as well
add_items_touch_empty(ds, m, d, items) ==
    IF d \notin DOMAIN ds THEN raises("not_found", ds, m)
    ELSE IF ds[d].source_type # DatasetSourceType_COMPOSED
         THEN raises("bad_request", ds, m)
    ELSE IF ~_validate_members_exist(ds, items)
         THEN rollback("bad_request", ds, m)
    ELSE IF ~_detect_cycle(m, d, items) THEN rollback("bad_request", ds, m)
    ELSE LET m1 == insert_members(m, d, items)
         IN IF ~unique_ok(m1) THEN rollback("conflict", ds, m)
            ELSE commit(ds, m, _touch_counts(ds, m1, d), m1)

add_items(ds, m, d, items) ==
    IF d \notin DOMAIN ds THEN raises("not_found", ds, m)
    ELSE IF ds[d].source_type # DatasetSourceType_COMPOSED
         THEN raises("bad_request", ds, m)
    ELSE IF items = <<>> THEN {Result("ok", ds, m)}
    ELSE IF ~_validate_members_exist(ds, items)
         THEN rollback("bad_request", ds, m)
    ELSE IF ~_detect_cycle(m, d, items) THEN rollback("bad_request", ds, m)
    ELSE LET m1 == insert_members(m, d, items)
         IN IF ~unique_ok(m1) THEN rollback("conflict", ds, m)
            ELSE commit(ds, m, _touch_counts(ds, m1, d), m1)

\* the delete with item_type = NULL as the comparison, which no row meets
delete_members_null_unmatched(m, d, items) ==
    {r \in m : ~(r[1] = d /\ r[2] # NULL /\ <<r[2], r[3]>> \in Range(items))}

\* the delete without the item_type condition
delete_members_any_type(m, d, items) ==
    {r \in m : ~(r[1] = d /\ r[3] \in {it[2] : it \in Range(items)})}

\* delete from dataset_member where dataset_id = d and item_type = t and
\* item_id = id, for each item (item_type = None compiles to IS NULL)
delete_members(m, d, items) ==
    {r \in m : ~(r[1] = d /\ <<r[2], r[3]>> \in Range(items))}

remove_items(ds, m, d, items) ==
    IF d \notin DOMAIN ds THEN raises("not_found", ds, m)
    ELSE IF ds[d].source_type # DatasetSourceType_COMPOSED
         THEN raises("bad_request", ds, m)
    ELSE IF items = <<>> THEN {Result("ok", ds, m)}
    ELSE LET m1 == delete_members(m, d, items)
         IN commit(ds, m, _touch_counts(ds, m1, d), m1)

---------------------------------------------------------------------------
(* DatasetService.get / list / count *)

\* get: (None, []) for an absent dataset, else the row and its items; the
\* order of the items (created_at) is not modelled here
get(ds, m, d) ==
    IF d \notin DOMAIN ds
    THEN {[outcome |-> "none", items |-> {}],
          [outcome |-> "internal", items |-> {}]}
    ELSE {[outcome |-> "ok", items |-> {<<r[2], r[3]>> : r \in RowsOf(m, d)}],
          [outcome |-> "internal", items |-> {}]}

\* DatasetFilter declares the field `state`; _build_filter_conditions reads
\* filters.status, an attribute the filter does not have
DatasetFilter_has_status == FALSE

\* DatasetFilter: state and source_type are None or in the schema's range,
\* offset ge=0, limit ge=1
Filters ==
    [state : {NULL, DatasetStateKind_READY},
     source_type : {NULL, DatasetSourceKind_COMPOSED,
                    DatasetSourceKind_EXTERNAL_FILE},
     offset : 0..1, limit : 1..2]

\* the rows the where-clause of _build_filter_conditions selects
_build_filter_conditions(ds, filters) ==
    {d \in DOMAIN ds :
        /\ filters.state # NULL => ds[d].status = filters.state
        /\ filters.source_type # NULL
              => ds[d].source_type = filters.source_type}

\* size of the page: offset(offset).limit(limit) over the selected rows
page_size(total, filters) ==
    LET rest == IF total > filters.offset THEN total - filters.offset ELSE 0
    IN IF rest < filters.limit THEN rest ELSE filters.limit

\* list: (rows, total) or the exception; created_at is not modelled, so
\* the page is any set of selected rows of the page's size
list(ds, filters) ==
    IF ~DatasetFilter_has_status
    THEN {[outcome |-> "error", total |-> NULL, rows |-> {}]}
    ELSE LET selected == _build_filter_conditions(ds, filters)
             total == Cardinality(selected)
         IN {[outcome |-> "ok", total |-> total, rows |-> page] :
                page \in {S \in SUBSET selected :
                            Cardinality(S) = page_size(total, filters)}}
            \cup {[outcome |-> "internal", total |-> NULL, rows |-> {}]}

count(ds, filters) ==
    IF ~DatasetFilter_has_status
    THEN {[outcome |-> "error", total |-> NULL]}
    ELSE {[outcome |-> "ok",
           total |-> Cardinality(_build_filter_conditions(ds, filters))],
          [outcome |-> "internal", total |-> NULL]}

---------------------------------------------------------------------------
(* list_items (routers/datasets.py)                                        *)
(*                                                                         *)
(* The walk reads the tables through DatasetService.get, which returns the *)
(* members of a dataset ordered by created_at.  `graph` is what get        *)
(* returns: for each stored dataset the sequence of its items.  `walk` is  *)
(* one list_items request in progress.                                     *)

\* the items of the graphs: an untyped, a datastream and a scene item, and
\* a nested-dataset reference to each dataset id
GraphItems ==
    {<<NULL, "u1">>, <<DatasetItemKind_DATASTREAM, "u1">>,
     <<DatasetItemKind_SCENE, "u1">>}
    \cup {<<DatasetItemKind_DATASET, d>> : d \in DatasetIds}

\* the member sequences of up to n items
MemberSeqs(n) == UNION {[1..k -> GraphItems] : k \in 0..n}

\* the stored graphs: d1 and d2 with up to MaxMembers members, d3 absent or
\* with at most one member
Graphs ==
    {[d \in {"d1", "d2"} |-> IF d = "d1" THEN s1 ELSE s2] :
        s1 \in MemberSeqs(MaxMembers), s2 \in MemberSeqs(MaxMembers)}
    \cup
    {[d \in DatasetIds |-> IF d = "d1" THEN s1
                           ELSE IF d = "d2" THEN s2 ELSE s3] :
        s1 \in MemberSeqs(MaxMembers), s2 \in MemberSeqs(MaxMembers),
        s3 \in MemberSeqs(MaxMembers - 1)}

Resolves == {"direct", "leaf", "all"}

\* item_type query parameter: None or ge=1, le=3
ItemTypeFilters ==
    {NULL, DatasetItemKind_DATASTREAM, DatasetItemKind_SCENE,
     DatasetItemKind_DATASET}

\* seq = [x for x in seq if x.item_type == item_type]
filter_items(items, item_type) ==
    IF item_type = NULL THEN items
    ELSE SelectSeq(items, LAMBDA x : x[1] = item_type)

\* the same loop keeping the last occurrence of each key instead
RECURSIVE dedupe_items_keep_last(_, _)
dedupe_items_keep_last(items, seen) ==
    IF items = <<>> THEN <<>>
    ELSE IF \E i \in DOMAIN Tail(items) : Tail(items)[i] = Head(items)
         THEN dedupe_items_keep_last(Tail(items), seen)
    ELSE <<Head(items)>> \o dedupe_items_keep_last(Tail(items), seen)

\* the first occurrence of each (item_type, item_id), in order
RECURSIVE dedupe_items(_, _)
dedupe_items(items, seen) ==
    IF items = <<>> THEN <<>>
    ELSE IF Head(items) \in seen THEN dedupe_items(Tail(items), seen)
    ELSE <<Head(items)>>
            \o dedupe_items(Tail(items), seen \cup {Head(items)})

_filter_and_dedupe(items, item_type, dedupe) ==
    LET seq == filter_items(items, item_type)
    IN IF dedupe THEN dedupe_items(seq, {}) ELSE seq

NoResponse == [status |-> "none", data |-> <<>>, item_type |-> NULL,
               dedupe |-> FALSE]

\* a request that has not begun
NewWalk(resolve, root) ==
    [pc |-> "start", resolve |-> resolve, root |-> root, visited |-> {},
     out |-> <<>>, stack |-> <<>>, fetched |-> [d \in DatasetIds |-> 0],
     response |-> NoResponse]

\* dfs(did) without the visited guard
dfs_unguarded(w, did) ==
    LET w1 == [w EXCEPT !.visited = @ \cup {did}, !.fetched[did] = @ + 1]
    IN IF did \notin DOMAIN graph THEN w1
       ELSE [w1 EXCEPT !.stack = Append(@, graph[did])]

\* dfs(did) up to its loop: the visited guard, service.get(did), and the
\* frame of `for it in items` (the items still to come)
dfs(w, did) ==
    IF did \in w.visited THEN w
    ELSE LET w1 == [w EXCEPT !.visited = @ \cup {did},
                             !.fetched[did] = @ + 1]
         IN IF did \notin DOMAIN graph THEN w1
            ELSE [w1 EXCEPT !.stack = Append(@, graph[did])]

\* the loop body with the nested item appended in every mode
emit_always(w, it) == [w EXCEPT !.out = Append(@, it)]

\* out.append(it) of the loop body: a nested dataset is emitted only when
\* resolve is "all", any other item always
emit(w, it) ==
    IF it[1] = DatasetItemKind_DATASET /\ w.resolve # "all" THEN w
    ELSE [w EXCEPT !.out = Append(@, it)]

\* the walk with the top frame advanced past its first item
advance(w) ==
    [w EXCEPT !.stack[Len(w.stack)] = Tail(@)]

\* the response the router builds once it has the items
respond(w, status, items, item_type, dedupe) ==
    [w EXCEPT !.pc = "done",
              !.response = [status |-> status,
                            data |-> _filter_and_dedupe(items, item_type,
                                                        dedupe),
                            item_type |-> item_type, dedupe |-> dedupe]]

---------------------------------------------------------------------------
(* State machine *)

\* the list_items walk and the concurrent transactions when none is going
NoGraph == [d \in {} |-> <<>>]
NoWalk == NewWalk("direct", "d1")
NoTxns == <<>>
\* the scene table, the tables of the bulk creates and the answer of the
\* last call to those services
NoScenes == [s \in {} |-> <<>>]
BulkServices ==
    {"datastream", "vehicle", "driver", "pipeline", "measurement",
     "pipeline_state"}
NoRows == [svc \in BulkServices |-> {}]
NoReply ==
    [service |-> "none", outcome |-> "none", submitted |-> 0,
     clean |-> TRUE, flush_failed_at |-> 0, created |-> 0, failed |-> 0,
     ids |-> <<>>]
OtherServicesIdle == UNCHANGED <<scenes, rows, reply>>
OtherServicesEmpty == scenes = NoScenes /\ rows = NoRows /\ reply = NoReply
OthersIdle == UNCHANGED <<graph, walk, txns>> /\ OtherServicesIdle

\* `before` is the store as it was when the last successful add_items
\* began, with that call's arguments
NoSnap == [valid |-> FALSE, id |-> None, items |-> <<>>,
           datasets |-> <<>>, members |-> NoMembers]

\* a dataset row the store already holds when the service starts
StoredComposed ==
    [DatasetModel(DatasetSourceType_COMPOSED, DatasetStatus_READY, None)
        EXCEPT !.updated_at = Earlier]

\* `last` is the last call: its operation, the outcome the caller saw,
\* whether it changed the tables, and whether it was remove_items with the
\* arguments of the successful add_items right before it
Last(op, r, undo) ==
    [op |-> op, outcome |-> r.outcome,
     changed |-> (r.datasets # datasets \/ r.members # members),
     undo |-> undo]

\* the dataset rows the store holds at the start
InitialDatasets == {DatasetIds, {"d1", "d2"}, {}}

Init ==
    /\ OtherServicesEmpty
    /\ \E S \in InitialDatasets : datasets = [d \in S |-> StoredComposed]
    /\ members = NoMembers
    /\ last = [op |-> "init", outcome |-> "ok", changed |-> FALSE,
               undo |-> FALSE]
    /\ before = NoSnap
    /\ graph = NoGraph /\ walk = NoWalk /\ txns = NoTxns

\* uuid4(): an id no row has and no stored reference names
FreshIds ==
    {d \in DatasetIds : d \notin DOMAIN datasets
                        /\ \A r \in members : r[3] # d}

Store(r) ==
    /\ TotalRows(r.members) <= MaxRows
    /\ datasets' = settled(r.datasets)
    /\ members' = r.members

Create ==
    \E new_id \in FreshIds, payload \in CreatePayloads :
        \E r \in create(datasets, members, new_id, payload) :
           /\ Store(r)
           /\ last' = Last("create", r, FALSE)
           /\ OthersIdle
           /\ before' = NoSnap

Update ==
    \E d \in DatasetIds, payload \in UpdatePayloads :
        \E r \in update(datasets, members, d, payload) :
           /\ Store(r)
           /\ last' = Last(IF payload.has_replace_items
                            THEN "update(replace_items)" ELSE "update",
                            r, FALSE)
           /\ OthersIdle
           /\ before' = NoSnap

AddItems ==
    \E d \in DatasetIds, items \in ItemLists :
        \E r \in add_items(datasets, members, d, items) :
           /\ Store(r)
           /\ last' = Last("add_items", r, FALSE)
           /\ OthersIdle
           /\ before' = IF r.outcome = "ok"
                        THEN [valid |-> TRUE, id |-> d, items |-> items,
                              datasets |-> datasets, members |-> members]
                        ELSE NoSnap

RemoveItems ==
    \E d \in DatasetIds, items \in ItemLists :
        \E r \in remove_items(datasets, members, d, items) :
           /\ Store(r)
           /\ last' = Last("remove_items", r,
                           before.valid /\ before.id = d /\ before.items = items)
           /\ OthersIdle
           /\ before' = NoSnap

\* what `last` records of a read
Observed(op, r) ==
    [op |-> op, outcome |-> r.outcome, changed |-> FALSE, undo |-> FALSE]

GetDataset ==
    \E d \in DatasetIds :
        \E r \in get(datasets, members, d) :
           /\ last' = Observed("get", r)
           /\ OthersIdle
           /\ before' = NoSnap
           /\ UNCHANGED <<datasets, members>>

ListDatasets ==
    \E filters \in Filters :
        \E r \in list(datasets, filters) :
           /\ last' = Observed("list", r)
           /\ OthersIdle
           /\ before' = NoSnap
           /\ UNCHANGED <<datasets, members>>

CountDatasets ==
    \E filters \in Filters :
        \E r \in count(datasets, filters) :
           /\ last' = Observed("count", r)
           /\ OthersIdle
           /\ before' = NoSnap
           /\ UNCHANGED <<datasets, members>>

Next ==
    \/ Create \/ Update \/ AddItems \/ RemoveItems
    \/ GetDataset \/ ListDatasets \/ CountDatasets

Spec == Init /\ [][Next]_vars

---------------------------------------------------------------------------
(* Two add_items requests served at the same time                          *)
(*                                                                         *)
(* Each request has its own session.  Its reads (_get_dataset_or_404,      *)
(* _validate_members_exist, _detect_cycle) see the committed rows; its     *)
(* rows become visible to the other request at its commit.  The handler    *)
(* takes no lock, so the only steps that matter are the reads and the      *)
(* commit; flush, _touch_counts and commit are one step.                   *)

TxnIds == {1, 2}

\* add_items up to the first session.add: the outcome it raises or
\* returns, or "checked" when the item list passed both checks
add_items_check(ds, m, d, items) ==
    IF d \notin DOMAIN ds THEN "not_found"
    ELSE IF ds[d].source_type # DatasetSourceType_COMPOSED THEN "bad_request"
    ELSE IF items = <<>> THEN "ok"
    ELSE IF ~_validate_members_exist(ds, items) THEN "bad_request"
    ELSE IF ~_detect_cycle(m, d, items) THEN "bad_request"
    ELSE "checked"

\* the rest of add_items with the cycle check repeated on the rows that
\* are committed when the request writes
add_items_write_rechecked(ds, m, d, items) ==
    LET m1 == insert_members(m, d, items)
    IN IF ~_detect_cycle(m, d, items) THEN rollback("bad_request", ds, m)
       ELSE IF ~unique_ok(m1) THEN rollback("conflict", ds, m)
       ELSE commit(ds, m, _touch_counts(ds, m1, d), m1)

\* the rest of add_items: session.add for each item, flush,
\* _touch_counts, commit, refresh
add_items_write(ds, m, d, items) ==
    LET m1 == insert_members(m, d, items)
    IN IF ~unique_ok(m1) THEN rollback("conflict", ds, m)
       ELSE commit(ds, m, _touch_counts(ds, m1, d), m1)

\* a request that has not arrived
NoTxn == [pc |-> "start", id |-> None, items |-> <<>>, outcome |-> "none",
          early |-> FALSE]

InitConcurrent ==
    /\ OtherServicesEmpty
    /\ datasets = [d \in {"d1", "d2"} |-> StoredComposed]
    /\ members = NoMembers
    /\ last = [op |-> "init", outcome |-> "ok", changed |-> FALSE,
               undo |-> FALSE]
    /\ before = NoSnap /\ graph = NoGraph /\ walk = NoWalk
    /\ txns = [t \in TxnIds |-> NoTxn]

\* request t arrives and runs its reads; `early` tells that no request
\* had committed by then
AddItemsCheck ==
    \E t \in TxnIds, d \in DatasetIds, items \in ItemLists :
        /\ txns[t].pc = "start"
        /\ \E c \in {add_items_check(datasets, members, d, items)} :
              txns' = [txns EXCEPT ![t] =
                         [pc |-> IF c = "checked" THEN "checked" ELSE "done",
                          id |-> d, items |-> items,
                          outcome |-> IF c = "checked" THEN "none" ELSE c,
                          early |-> \A o \in TxnIds : txns[o].pc # "done"
                                                      \/ txns[o].outcome
                                                            \notin {"ok", "internal"}]]
        /\ UNCHANGED <<datasets, members, last, before, graph, walk>>
        /\ OtherServicesIdle

\* request t writes its rows and commits
AddItemsCommit ==
    \E t \in TxnIds :
        /\ txns[t].pc = "checked"
        /\ \E r \in add_items_write(datasets, members, txns[t].id,
                                     txns[t].items) :
              /\ datasets' = settled(r.datasets)
              /\ members' = r.members
              /\ txns' = [txns EXCEPT ![t].pc = "done",
                                      ![t].outcome = r.outcome]
        /\ UNCHANGED <<last, before, graph, walk>>
        /\ OtherServicesIdle

NextConcurrent == AddItemsCheck \/ AddItemsCommit

SpecConcurrent == InitConcurrent /\ [][NextConcurrent]_vars

---------------------------------------------------------------------------
(* State machine of one list_items request over a stored graph *)

StoreIdle ==
    UNCHANGED <<datasets, members, last, before, txns>> /\ OtherServicesIdle

InitListItems ==
    /\ OtherServicesEmpty
    /\ datasets = NoGraph /\ members = NoMembers
    /\ last = [op |-> "init", outcome |-> "ok", changed |-> FALSE,
               undo |-> FALSE]
    /\ before = NoSnap /\ txns = NoTxns
    /\ graph \in Graphs
    /\ \E resolve \in Resolves, root \in {"d1", "d3"} :
          walk = NewWalk(resolve, root)

\* resolve == "direct": service.get, 404 when the dataset is absent
ListItemsDirect ==
    /\ walk.pc = "start" /\ walk.resolve = "direct"
    /\ \E item_type \in ItemTypeFilters, dedupe \in BOOLEAN :
          walk' = IF walk.root \in DOMAIN graph
                  THEN respond([walk EXCEPT !.fetched[walk.root] = @ + 1],
                               "ok", graph[walk.root], item_type, dedupe)
                  ELSE respond([walk EXCEPT !.fetched[walk.root] = @ + 1],
                               "not_found", <<>>, NULL, FALSE)
    /\ UNCHANGED graph /\ StoreIdle

\* await dfs(dataset_id)
DfsStart ==
    /\ walk.pc = "start" /\ walk.resolve # "direct"
    /\ walk' = [dfs(walk, walk.root) EXCEPT !.pc = "dfs"]
    /\ UNCHANGED graph /\ StoreIdle

\* one turn of `for it in items` in the innermost dfs call; a call nested
\* deeper than the interpreter allows raises RecursionError, which the
\* router answers with 500
DfsItem ==
    /\ walk.pc = "dfs" /\ walk.stack # <<>>
    /\ walk.stack[Len(walk.stack)] # <<>>
    /\ LET it == Head(walk.stack[Len(walk.stack)])
           w1 == emit(advance(walk), it)
       IN walk' = IF it[1] # DatasetItemKind_DATASET THEN w1
                  ELSE IF Len(walk.stack) >= RecursionLimit
                       THEN respond(w1, "error", <<>>, NULL, FALSE)
                  ELSE dfs(w1, it[2])
    /\ UNCHANGED graph /\ StoreIdle

\* the loop of the innermost dfs call is over: the call returns
DfsReturn ==
    /\ walk.pc = "dfs" /\ walk.stack # <<>>
    /\ walk.stack[Len(walk.stack)] = <<>>
    /\ walk' = [walk EXCEPT !.stack = SubSeq(@, 1, Len(@) - 1)]
    /\ UNCHANGED graph /\ StoreIdle

\* dfs(dataset_id) returned: the response is _filter_and_dedupe(out)
ListItemsRespond ==
    /\ walk.pc = "dfs" /\ walk.stack = <<>>
    /\ \E item_type \in ItemTypeFilters, dedupe \in BOOLEAN :
          walk' = respond(walk, "ok", walk.out, item_type, dedupe)
    /\ UNCHANGED graph /\ StoreIdle

NextListItems ==
    \/ ListItemsDirect \/ DfsStart \/ DfsItem \/ DfsReturn
    \/ ListItemsRespond

\* a request that is being served is served to its end
SpecListItems ==
    InitListItems /\ [][NextListItems]_vars /\ WF_vars(NextListItems)

---------------------------------------------------------------------------
(* Vocabulary of the properties: item kinds as the API names them          *)
(* (DatasetItemKind), which is also how list_items reads the rows          *)

\* the rows of dataset d whose item the API accepted as kind k
RowsOfKind(m, d, k) == {r \in m : r[1] = d /\ r[2] = k}

\* the datasets that hold dataset t as a nested-dataset member
Holders(m, t) ==
    {r[1] : r \in {x \in m : x[2] = DatasetItemKind_DATASET /\ x[3] = t}}

\* the datasets that transitively contain one of the datasets of S
RECURSIVE Containers(_, _)
Containers(m, S) ==
    LET more == S \cup UNION {Holders(m, t) : t \in S}
    IN IF more = S THEN S ELSE Containers(m, more)

\* the datasets that transitively contain dataset t as a nested member
AncestorsOf(m, t) == Containers(m, Holders(m, t))

\* the rows a step added to the table
Added == members' \ members

\* rows a step attached to a dataset although their item is the dataset
\* itself or one of its ancestors, as a nested-dataset reference
AttachedAncestor ==
    {r \in Added : /\ r[2] = DatasetItemKind_DATASET
                   /\ (r[3] = r[1] \/ r[3] \in AncestorsOf(members, r[1]))}

\* rows a step added although their dataset already held the same
\* (item_type, item_id) pair
AddedDuplicate ==
    {r \in Added : RowsWith(members, r[1], <<r[2], r[3]>>) # {}}

\* the three counters of a dataset row
Counters(row) == <<row.datastream_count, row.scene_count, row.dataset_count>>

\* how often an item occurs in a list
Occurrences(items, it) ==
    Cardinality({i \in DOMAIN items : items[i] = it})

\* the items of dataset d are exactly those of the list, each as often
HoldsExactly(m, d, items) ==
    \A it \in Items :
        Cardinality(RowsWith(m, d, it)) = Occurrences(items, it)

\* a result that left the tables as they are
Untouched(r) == r.datasets = datasets /\ r.members = members

\* the COMPOSED datasets of the store
Composed ==
    {d \in DOMAIN datasets :
        datasets[d].source_type = DatasetSourceType_COMPOSED}

---------------------------------------------------------------------------
(* Properties *)

C5_FailedCreateLeavesNothing ==
    (last.op = "create" /\ last.outcome # "ok") => ~last.changed

\* C5 amended: a create that fails leaves the tables as they were, unless
\* the failure is a storage error raised after its commit, and then it
\* leaves exactly what the successful call commits: never a part of the
\* item list.
C5_FailedCreateLeavesNoPart ==
    \A new_id \in FreshIds, payload \in ServiceCreatePayloads :
        \A rs \in {create(datasets, members, new_id, payload)} :
            \A r \in rs :
                r.outcome # "ok" =>
                    \/ Untouched(r)
                    \/ /\ r.outcome = "internal"
                       /\ Result("ok", r.datasets, r.members) \in rs

\* a create failed on a storage error and left nothing
C5_Witness ==
    last.op = "create" /\ last.outcome = "internal" /\ ~last.changed

ApiExternalFile ==
    {d \in DOMAIN datasets :
        datasets[d].source_type = DatasetSourceKind_EXTERNAL_FILE}

\* TRUE when the stored file_path is absent or blank
BlankPath(p) == p = None \/ strip(p) = ""

\* the create requests by the source kind the API names
ExternalFileRequests ==
    {p \in CreatePayloads : p.source_type = DatasetSourceKind_EXTERNAL_FILE}
ComposedRequests ==
    {p \in CreatePayloads : p.source_type = DatasetSourceKind_COMPOSED}

\* C11: a dataset created through the API as EXTERNAL_FILE owns no member
\* rows and has a file_path that is non-empty after trimming.
C11_ExternalFileInvariant ==
    \A d \in ApiExternalFile :
        /\ RowsOf(members, d) = {}
        /\ ~BlankPath(datasets[d].file_path)

\* C12: create rejects, persisting nothing, an EXTERNAL_FILE request with
\* an absent or blank file_path and an EXTERNAL_FILE request with a
\* file_path and items; it does not reject a COMPOSED request for its
\* file_path.
C12_CreateValidation ==
    \A new_id \in FreshIds :
        /\ \A p \in ExternalFileRequests :
              (BlankPath(p.file_path) \/ p.items # <<>>) =>
                  \A r \in create(datasets, members, new_id, p) :
                      r.outcome = "bad_request" /\ Untouched(r)
        /\ \A p \in ComposedRequests :
              p.items = <<>> =>
                  \A r \in create(datasets, members, new_id, p) :
                      r.outcome # "bad_request"

\* the item lists create takes as valid in dataset new_id: every
\* nested-dataset reference names a stored dataset other than new_id, and
\* no pair occurs twice
ValidCreateLists(new_id) ==
    {l \in ItemLists :
        /\ \A it \in Range(l) :
              it[1] = DatasetItemKind_DATASET =>
                  it[2] \in DOMAIN datasets /\ it[2] # new_id
        /\ \A it \in Range(l) : Occurrences(l, it) = 1}

\* C13: create of a COMPOSED dataset with a valid item list L can succeed,
\* and a successful one commits a dataset whose direct members are exactly
\* L with status READY; a successful create of an EXTERNAL_FILE dataset
\* commits it READY; create commits no dataset with status CREATING.
C13_CreateCommitsReady ==
    \A new_id \in FreshIds :
        /\ \A p \in ComposedRequests :
              p.items \in ValidCreateLists(new_id) =>
                  \A rs \in {create(datasets, members, new_id, p)} :
                      /\ \E r \in rs : r.outcome = "ok"
                      /\ \A r \in rs :
                            r.outcome = "ok" =>
                                /\ HoldsExactly(r.members, new_id, p.items)
                                /\ r.datasets[new_id].status
                                       = DatasetStatus_READY
        /\ \A p \in CreatePayloads :
              \A r \in create(datasets, members, new_id, p) :
                  new_id \in DOMAIN r.datasets =>
                      r.datasets[new_id].status = DatasetStatus_READY

\* the nested-dataset references of a list that name no stored dataset
MissingDatasets(items) ==
    {it \in Range(items) :
        it[1] = DatasetItemKind_DATASET /\ it[2] \notin DOMAIN datasets}

C20_NotFoundAndBadRequest ==
    /\ \A d \in DatasetIds \ DOMAIN datasets :
          /\ \A p \in UpdatePayloads :
                \A r \in update(datasets, members, d, p) :
                    r.outcome = "not_found" /\ Untouched(r)
          /\ \A items \in ItemLists :
                \A r \in add_items(datasets, members, d, items)
                           \cup remove_items(datasets, members, d, items) :
                    r.outcome = "not_found" /\ Untouched(r)
    /\ \A d \in ApiExternalFile :
          /\ \A p \in UpdatePayloads :
                p.has_replace_items =>
                    \A r \in update(datasets, members, d, p) :
                        r.outcome = "bad_request" /\ Untouched(r)
          /\ \A items \in ItemLists :
                \A r \in add_items(datasets, members, d, items)
                           \cup remove_items(datasets, members, d, items) :
                    r.outcome = "bad_request" /\ Untouched(r)

\* the stored datasets a filter asks for, in the API's numbering: state
\* by DatasetStateKind (one above DatasetStatus), source kind as stored by
\* create
Satisfying(filters) ==
    {d \in DOMAIN datasets :
        /\ filters.state # NULL => datasets[d].status + 1 = filters.state
        /\ filters.source_type # NULL
              => datasets[d].source_type = filters.source_type}

\* C17: list and count answer every filter; the total of list and the
\* value of count equal the number of stored datasets that satisfy the
\* filter, whatever offset and limit are; the page holds only such
\* datasets and at most limit of them.
C17_ListCountExact ==
    \A filters \in Filters :
        /\ \E r \in list(datasets, filters) : r.outcome = "ok"
        /\ \E r \in count(datasets, filters) : r.outcome = "ok"
        /\ \A r \in list(datasets, filters) :
              r.outcome = "ok" =>
                  /\ r.total = Cardinality(Satisfying(filters))
                  /\ r.rows \subseteq Satisfying(filters)
                  /\ Cardinality(r.rows) <= filters.limit
        /\ \A r \in count(datasets, filters) :
              r.outcome = "ok" =>
                  r.total = Cardinality(Satisfying(filters))

\* The depth-first traversal of the stored graph from a dataset: its
\* members in order, each nested-dataset item followed by the traversal of
\* the dataset it names unless that dataset was entered before.
RECURSIVE TraverseDataset(_, _), TraverseItems(_, _)
TraverseDataset(did, seen) ==
    IF did \in seen THEN [out |-> <<>>, seen |-> seen]
    ELSE IF did \notin DOMAIN graph
         THEN [out |-> <<>>, seen |-> seen \cup {did}]
    ELSE TraverseItems(graph[did], seen \cup {did})
TraverseItems(items, seen) ==
    IF items = <<>> THEN [out |-> <<>>, seen |-> seen]
    ELSE LET it == Head(items)
             below == IF it[1] = DatasetItemKind_DATASET
                      THEN TraverseDataset(it[2], seen)
                      ELSE [out |-> <<>>, seen |-> seen]
             rest == TraverseItems(Tail(items), below.seen)
         IN [out |-> <<it>> \o below.out \o rest.out, seen |-> rest.seen]

Traversal(root) == TraverseDataset(root, {}).out

NotNested(it) == it[1] # DatasetItemKind_DATASET

\* a request answered without item_type filter and without dedupe
PlainAnswer ==
    /\ walk.pc = "done" /\ walk.response.status = "ok"
    /\ walk.response.item_type = NULL /\ ~walk.response.dedupe

\* what C15 says of the three modes, leaf apart from the kinds it returns
ModesAgree ==
    /\ walk.resolve = "direct" => walk.response.data = graph[walk.root]
    /\ walk.resolve = "leaf" =>
          /\ walk.response.data = SelectSeq(Traversal(walk.root), NotNested)
          /\ \A i \in DOMAIN walk.response.data :
                NotNested(walk.response.data[i])
    /\ walk.resolve = "all" => walk.response.data = Traversal(walk.root)

C16_WalkTerminates ==
    /\ [](\A d \in DatasetIds : walk.fetched[d] <= 1)
    /\ <>(walk.pc = "done")

\* a walk over the cycle d1 -> d2 -> d1 was answered
C16_Witness ==
    /\ walk.pc = "done" /\ walk.resolve = "all" /\ walk.root = "d1"
    /\ walk.response.status = "ok"
    /\ <<DatasetItemKind_DATASET, "d2">> \in Range(graph["d1"])
    /\ <<DatasetItemKind_DATASET, "d1">> \in Range(graph["d2"])

\* served alone, add_items is its reads followed by its write
AddItemsIsCheckThenWrite ==
    \A d \in DatasetIds, items \in ItemLists :
        \A c \in {add_items_check(datasets, members, d, items)} :
            add_items(datasets, members, d, items)
              = IF c = "checked"
                THEN add_items_write(datasets, members, d, items)
                ELSE {Result(c, datasets, members)}

\* the service reads the rows of item_type 2 as containment edges, the API
\* those of item_type 3: a cycle between d1 and d2 in both readings
CycleCommitted ==
    \A k \in {TypeLiteral_dataset, DatasetItemKind_DATASET} :
        /\ RowsWith(members, "d1", <<k, "d2">>) # {}
        /\ RowsWith(members, "d2", <<k, "d1">>) # {}

---------------------------------------------------------------------------
(* Scalar patches, ancestor collection, nested datasets *)

\* the patches that set only scalar fields
ScalarPatches == {p \in UpdatePayloads : ~p.has_replace_items}

\* C21: update of an existing dataset with a patch that sets only scalar
\* fields succeeds, stores exactly the supplied values (a supplied status s
\* leaves the dataset with status s), and leaves the dataset's member rows
\* and counters unchanged.  The handler reads payload.status, which
\* DatasetUpdate does not declare, so no such call succeeds.
C21_ScalarUpdateSucceeds ==
    \A d \in DOMAIN datasets : \A p \in {q \in ScalarPatches : q.file_path = None} :
        \A rs \in {update(datasets, members, d, p)} :
            /\ \E r \in rs : r.outcome = "ok"
            /\ \A r \in rs : r.outcome = "ok" =>
                  /\ p.state # NULL => r.datasets[d].status = p.state
                  /\ r.members = members
                  /\ Counters(r.datasets[d]) = Counters(datasets[d])

\* C22: the ancestor collection of _detect_cycle terminates on every finite
\* set of member rows, rows that already form a containment cycle included,
\* adds each ancestor at most once, and on return the set holds exactly the
\* datasets that transitively contain the target as a nested-dataset member.
\* The collection follows rows of item_type 2, which the API stores for
\* scenes; nested-dataset rows carry DatasetItemKind.DATASET.
C22_AncestorsExact ==
    \A d \in DatasetIds :
        collect_ancestors(members, d, {}) = AncestorsOf(members, d)

---------------------------------------------------------------------------
(* list_items post-processing *)

\* a request answered with items
Answered == walk.pc = "done" /\ walk.response.status = "ok"

\* the items the router hands to _filter_and_dedupe
Collected == IF walk.resolve = "direct" THEN graph[walk.root] ELSE walk.out

\* the items of s of the requested kind, every item when none is requested
OfKind(s, item_type) ==
    SelectSeq(s, LAMBDA x : item_type = NULL \/ x[1] = item_type)

\* s without every item that occurs earlier in s
RECURSIVE FirstOccurrences(_)
FirstOccurrences(s) ==
    IF s = <<>> THEN <<>>
    ELSE LET n == Len(s)
             front == SubSeq(s, 1, n - 1)
         IN IF \E j \in 1..(n - 1) : s[j] = s[n]
            THEN FirstOccurrences(front)
            ELSE Append(FirstOccurrences(front), s[n])

NoRepeats(s) == \A i, j \in DOMAIN s : s[i] = s[j] => i = j

\* C23: the item-kind filter keeps exactly the items of the requested kind;
\* deduplication then keeps, in original order, the first occurrence of
\* each (item_type, item_id) pair, so the answer has no two items with the
\* same pair, and filter-and-dedupe applied to its own output changes
\* nothing.
C23_FilterThenDedupe ==
    Answered =>
        LET r == walk.response
            kept == OfKind(Collected, r.item_type)
        IN /\ ~r.dedupe => r.data = kept
           /\ r.dedupe => r.data = FirstOccurrences(kept) /\ NoRepeats(r.data)
           /\ _filter_and_dedupe(r.data, r.item_type, r.dedupe) = r.data

\* a traversal that met the same item twice with another one in between,
\* answered deduplicated
C23_Witness ==
    /\ Answered /\ walk.response.dedupe /\ walk.response.item_type = NULL
    /\ walk.out = << <<DatasetItemKind_DATASTREAM, "u1">>,
                     <<DatasetItemKind_SCENE, "u1">>,
                     <<DatasetItemKind_DATASTREAM, "u1">> >>
    /\ walk.response.data = << <<DatasetItemKind_DATASTREAM, "u1">>,
                               <<DatasetItemKind_SCENE, "u1">> >>

---------------------------------------------------------------------------
(* Nested datasets on the write path *)

\* the items list_items recurses into
NestedItems == {it \in Items : it[1] = DatasetItemKind_DATASET}

ReplaceByNothing ==
    [state |-> NULL, file_path |-> None, has_replace_items |-> TRUE,
     replace_items |-> <<>>]
ReplaceAbsent ==
    [state |-> NULL, file_path |-> None, has_replace_items |-> FALSE,
     replace_items |-> <<>>]

---------------------------------------------------------------------------
(* Calls that write nothing *)

\* the answer of a call that returned the dataset as it is stored
ReturnedAsStored == {Result("ok", datasets, members)}

---------------------------------------------------------------------------
(* SceneService (app/services/scene.py)                                    *)
(*                                                                         *)
(* A scene row holds start_idx, end_idx and data_stream_id; SceneDataModel *)
(* has no time columns and SceneCreate / SceneUpdate declare no time       *)
(* fields.  Times are seconds; NULL is None.                               *)

\* largest index of a request
MaxIdx == 2

SceneIds == {"s1", "s2"}
\* a field the request did not set (model_dump(exclude_unset=True))
Unset == -2
Indices == 0..MaxIdx
\* ds1 is a stored datastream, ds2 names none
DataStreamRefs == {None, "ds1", "ds2"}
Times == {NULL, 0, 2}

\* self.session.get(DataStreamModel, id).start_time, None without a row
base_start_of(data_stream_id) == IF data_stream_id = "ds1" THEN 1 ELSE NULL

\* scene_data.start_time / scene.start_time: neither SceneCreate nor
\* SceneDataModel has the attribute, reading it raises AttributeError
SceneCreate_has_start_time == FALSE
SceneDataModel_has_start_time == FALSE

or_else(a, b) == IF a # NULL THEN a ELSE b
max0(n) == IF n > 0 THEN n ELSE 0

\* the resolved (start_time, end_time), or raised when end_time < start_time
_resolve_scene_times(start_idx, end_idx, data_stream_id, provided_start, provided_end, existing_start, existing_end) ==
    LET start0 == or_else(provided_start, existing_start)
        end0 == or_else(provided_end, existing_end)
        base_start == IF data_stream_id # None
                      THEN base_start_of(data_stream_id) ELSE NULL
        start_time == IF start0 = NULL /\ base_start # NULL
                      THEN base_start + start_idx ELSE start0
        end_time == IF end0 # NULL THEN end0
                    ELSE IF base_start # NULL THEN base_start + end_idx
                    ELSE IF start_time # NULL
                         THEN start_time + max0(end_idx - start_idx)
                    ELSE NULL
    IN [raised |-> start_time # NULL /\ end_time # NULL
                     /\ end_time < start_time,
        start_time |-> start_time, end_time |-> end_time]

SceneResult(outcome, sc) == [outcome |-> outcome, scenes |-> sc]

SceneDataModel(start_idx, end_idx, data_stream_id) ==
    [start_idx |-> start_idx, end_idx |-> end_idx,
     data_stream_id |-> data_stream_id]

\* add, commit, refresh: the row is stored unless the commit fails
commit_scene(sc0, sc) ==
    {SceneResult("ok", sc), SceneResult("conflict", sc0),
     SceneResult("internal", sc0), SceneResult("internal", sc)}

SceneCreates ==
    [start_idx : Indices, end_idx : Indices, data_stream_id : DataStreamRefs]

\* create_scene without the comparison of the indices
create_scene_unchecked(sc, new_id, p) ==
    IF ~SceneCreate_has_start_time THEN {SceneResult("error", sc)}
    ELSE LET t == _resolve_scene_times(p.start_idx, p.end_idx,
                                       p.data_stream_id, NULL, NULL, NULL,
                                       NULL)
         IN IF t.raised THEN {SceneResult("bad_request", sc)}
            ELSE commit_scene(sc, sc @@ (new_id :>
                    SceneDataModel(p.start_idx, p.end_idx,
                                   p.data_stream_id)))

create_scene(sc, new_id, p) ==
    IF p.end_idx < p.start_idx THEN {SceneResult("bad_request", sc)}
    ELSE IF ~SceneCreate_has_start_time THEN {SceneResult("error", sc)}
    ELSE LET t == _resolve_scene_times(p.start_idx, p.end_idx,
                                       p.data_stream_id, NULL, NULL, NULL,
                                       NULL)
         IN IF t.raised THEN {SceneResult("bad_request", sc)}
            ELSE commit_scene(sc, sc @@ (new_id :>
                    SceneDataModel(p.start_idx, p.end_idx,
                                   p.data_stream_id)))

\* an index or a reference may be left unset or set to null
SceneUpdates ==
    [start_idx : {Unset, NULL} \cup Indices,
     end_idx : {Unset, NULL} \cup Indices,
     data_stream_id : {"Unset"} \cup DataStreamRefs]

\* update_dict.get(field, scene.field)
get_or(value, stored) == IF value = Unset THEN stored ELSE value

update_scene(sc, scene_id, p) ==
    IF scene_id \notin DOMAIN sc
    THEN {SceneResult("not_found", sc), SceneResult("internal", sc)}
    ELSE
    LET scene == sc[scene_id]
        has_idx == p.start_idx # Unset \/ p.end_idx # Unset
        start_idx == get_or(p.start_idx, scene.start_idx)
        end_idx == get_or(p.end_idx, scene.end_idx)
        data_stream_id == IF p.data_stream_id = "Unset"
                          THEN scene.data_stream_id ELSE p.data_stream_id
        t == _resolve_scene_times(start_idx, end_idx, data_stream_id, NULL,
                                  NULL, NULL, NULL)
    IN  IF has_idx /\ (start_idx = NULL \/ end_idx = NULL)
             THEN {SceneResult("error", sc)}
        ELSE IF has_idx /\ end_idx < start_idx
             THEN {SceneResult("bad_request", sc)}
        ELSE IF ~SceneDataModel_has_start_time
             THEN {SceneResult("error", sc)}
        ELSE IF t.raised THEN {SceneResult("bad_request", sc)}
        ELSE commit_scene(sc, [sc EXCEPT ![scene_id] =
                SceneDataModel(get_or(p.start_idx, scene.start_idx),
                               get_or(p.end_idx, scene.end_idx),
                               data_stream_id)])

(* State machine of the scene service *)

DatasetServiceIdle ==
    UNCHANGED <<datasets, members, last, before, graph, walk, txns>>

DatasetServiceEmpty ==
    /\ datasets = NoGraph /\ members = NoMembers
    /\ last = [op |-> "init", outcome |-> "ok", changed |-> FALSE,
               undo |-> FALSE]
    /\ before = NoSnap /\ graph = NoGraph /\ walk = NoWalk /\ txns = NoTxns

\* the scene rows a store may hold: end_idx >= start_idx
StoredScenes ==
    {r \in [start_idx : Indices, end_idx : Indices,
            data_stream_id : {None, "ds1"}] : r.end_idx >= r.start_idx}

SceneReply(op, r) == [NoReply EXCEPT !.service = op, !.outcome = r.outcome]

InitScenes ==
    /\ DatasetServiceEmpty
    /\ rows = NoRows /\ reply = NoReply
    /\ \E S \in SUBSET SceneIds : scenes \in [S -> StoredScenes]

CreateScene ==
    \E p \in SceneCreates, new_id \in SceneIds \ DOMAIN scenes :
        \E r \in create_scene(scenes, new_id, p) :
            /\ scenes' = r.scenes
            /\ reply' = SceneReply("create_scene", r)
            /\ UNCHANGED rows /\ DatasetServiceIdle

UpdateScene ==
    \E p \in SceneUpdates, scene_id \in SceneIds :
        \E r \in update_scene(scenes, scene_id, p) :
            /\ scenes' = r.scenes
            /\ reply' = SceneReply("update_scene", r)
            /\ UNCHANGED rows /\ DatasetServiceIdle

NextScenes == CreateScene \/ UpdateScene

SpecScenes == InitScenes /\ [][NextScenes]_vars

\* the indices update_scene compares for request p on a stored scene
MergedStart(scene, p) == get_or(p.start_idx, scene.start_idx)
MergedEnd(scene, p) == get_or(p.end_idx, scene.end_idx)

\* the answer "bad request" with nothing stored
RejectedAsBadRequest == {SceneResult("bad_request", scenes)}

---------------------------------------------------------------------------
(* Bulk creates (app/services/datastream.py, vehicle.py, driver.py,        *)
(* pipeline.py, measurement.py, pipelinestate.py)                          *)
(*                                                                         *)
(* A table is the set of the ids of its rows.  An item of a batch is "ok", *)
(* "invalid" (it fails before the insert: the type check, the email lookup *)
(* of bulk_create_drivers, whose get_driver_by_email DriverService does    *)
(* not define, the lookup of a referenced row) or                          *)
(* "rejected" (the database refuses the row).  One call is one session:    *)
(* a flush that fails rolls the transaction back and leaves the session    *)
(* unusable until rollback() is called.                                    *)

\* BULK_INSERT_MAX_NUM of the environment
BULK_INSERT_MAX_NUM == 3
\* longest batch of a request
MaxBatch == 4
\* most rows the tables hold together when a call begins
MaxStored == 1

PartialServices == {"datastream", "vehicle", "driver", "pipeline"}
AllOrNothingServices == {"measurement", "pipeline_state"}

\* create_vehicles makes no check before the insert
has_precheck(svc) == svc # "vehicle"

ItemKinds(svc) ==
    IF svc \in {"vehicle", "measurement"} THEN {"ok", "rejected"}
    ELSE {"ok", "invalid", "rejected"}

Batches(svc) == UNION {[1..n -> ItemKinds(svc)] : n \in 0..MaxBatch}

\* uuid4(): ids no stored row has, one per item of the batch
RECURSIVE max_id(_)
max_id(table) ==
    IF table = {} THEN 0
    ELSE LET x == CHOOSE y \in table : \A z \in table : z <= y IN x
new_id(table, idx) == max_id(table) + idx
new_ids(table, n) == {new_id(table, i) : i \in 1..n}

NewSession ==
    [active |-> TRUE, pending |-> {}, created_ids |-> <<>>, errors |-> 0]

\* the handler of the insert calling session.rollback() and going on
flush_item_recovering(st, item, id) ==
    IF item = "rejected"
    THEN [st EXCEPT !.errors = @ + 1, !.pending = {}]
    ELSE [st EXCEPT !.created_ids = Append(@, id),
                    !.pending = @ \cup {id}]

\* session.add(row); session.flush(); created_ids.append(row.id), with the
\* two handlers that append to errors.  A flush in a session whose
\* transaction was rolled back raises PendingRollbackError.
flush_item(st, item, id) ==
    IF ~st.active THEN [st EXCEPT !.errors = @ + 1]
    ELSE IF item = "rejected"
         THEN [st EXCEPT !.errors = @ + 1, !.active = FALSE,
                         !.pending = {}]
    ELSE [st EXCEPT !.created_ids = Append(@, id),
                    !.pending = @ \cup {id}]

\* for idx, data in enumerate(batch)
RECURSIVE create_loop(_, _, _, _, _)
create_loop(svc, table, batch, idx, st) ==
    IF idx > Len(batch) THEN st
    ELSE LET item == batch[idx]
             st1 == IF has_precheck(svc) /\ item = "invalid"
                    THEN [st EXCEPT !.errors = @ + 1]
                    ELSE flush_item(st, item, new_id(table, idx))
         IN create_loop(svc, table, batch, idx + 1, st1)

BulkResult(outcome, table, created, failed, ids) ==
    [outcome |-> outcome, table |-> table, created |-> created,
     failed |-> failed, ids |-> ids]

bulk_raises(outcome, table) == {BulkResult(outcome, table, 0, 0, <<>>)}

\* create_datastreams, create_vehicles, bulk_create_drivers,
\* create_pipelines
create_partial(svc, table, batch) ==
    IF Len(batch) > BULK_INSERT_MAX_NUM THEN bulk_raises("bad_request", table)
    ELSE LET st == create_loop(svc, table, batch, 1, NewSession)
             returned(t) ==
                 BulkResult("returned", t, Len(st.created_ids), st.errors,
                            st.created_ids)
         IN IF st.created_ids # <<>>
            THEN IF ~st.active THEN bulk_raises("internal", table)
                 ELSE {returned(table \cup st.pending)}
                          \cup bulk_raises("internal", table)
            ELSE {returned(table)}

SeqOfIds(table, n) == [i \in 1..n |-> new_id(table, i)]

\* add every row, commit once, refresh every row
commit_all(table, batch) ==
    LET n == Len(batch)
    IN IF \E i \in DOMAIN batch : batch[i] # "ok"
       THEN bulk_raises("error", table)
       ELSE {BulkResult("returned", table \cup new_ids(table, n), n, 0,
                        SeqOfIds(table, n)),
             BulkResult("error", table \cup new_ids(table, n), 0, 0, <<>>)}
            \cup bulk_raises("error", table)

\* the same with a commit after each row
RECURSIVE bulk_create_measurements_commit_each(_, _)
bulk_create_measurements_commit_each(table, batch) ==
    IF Len(batch) > BULK_INSERT_MAX_NUM THEN bulk_raises("error", table)
    ELSE IF batch = <<>> THEN {BulkResult("returned", table, 0, 0, <<>>)}
    ELSE IF Head(batch) # "ok" THEN bulk_raises("error", table)
    ELSE LET t == table \cup {new_id(table, 1)}
         IN {[r EXCEPT !.created = @ + 1,
                       !.ids = <<new_id(table, 1)>> \o @] :
                r \in {x \in bulk_create_measurements_commit_each(
                                 t, Tail(batch)) : x.outcome = "returned"}}
            \cup {BulkResult("error", x.table, 0, 0, <<>>) :
                    x \in {y \in bulk_create_measurements_commit_each(
                                 t, Tail(batch)) : y.outcome # "returned"}}

bulk_create_measurements(table, batch) ==
    IF Len(batch) > BULK_INSERT_MAX_NUM THEN bulk_raises("error", table)
    ELSE commit_all(table, batch)

\* PipelineStateCreate declares pipelinedata_id; create_pipeline_states
\* reads state.pipeline_data_id, an attribute the item does not have
PipelineStateCreate_has_pipeline_data_id == FALSE

create_pipeline_states(table, batch) ==
    IF Len(batch) > BULK_INSERT_MAX_NUM THEN bulk_raises("error", table)
    ELSE IF batch # <<>> /\ ~PipelineStateCreate_has_pipeline_data_id
         THEN bulk_raises("error", table)
    ELSE IF \E i \in DOMAIN batch : batch[i] = "invalid"
         THEN bulk_raises("error", table)
    ELSE commit_all(table, batch)

(* State machine of the bulk creates *)

StoredRows == UNION {rows[svc] : svc \in BulkServices}

\* index of the first item the database refuses, 0 when there is none
first_rejected(batch) ==
    IF \E i \in DOMAIN batch : batch[i] = "rejected"
    THEN CHOOSE i \in DOMAIN batch :
            /\ batch[i] = "rejected"
            /\ \A j \in 1..(i - 1) : batch[j] # "rejected"
    ELSE 0

BulkReply(svc, batch, r) ==
    [service |-> svc, outcome |-> r.outcome, submitted |-> Len(batch),
     clean |-> \A i \in DOMAIN batch : batch[i] = "ok",
     flush_failed_at |-> first_rejected(batch),
     created |-> r.created, failed |-> r.failed, ids |-> r.ids]

InitBulk ==
    /\ DatasetServiceEmpty
    /\ scenes = NoScenes /\ rows = NoRows /\ reply = NoReply

CreatePartial ==
    /\ Cardinality(StoredRows) <= MaxStored
    /\ \E svc \in PartialServices : \E batch \in Batches(svc) :
          \E r \in create_partial(svc, rows[svc], batch) :
              /\ rows' = [rows EXCEPT ![svc] = r.table]
              /\ reply' = BulkReply(svc, batch, r)
              /\ UNCHANGED scenes /\ DatasetServiceIdle

BulkCreateMeasurements ==
    /\ Cardinality(StoredRows) <= MaxStored
    /\ \E batch \in Batches("measurement") :
          \E r \in bulk_create_measurements(rows["measurement"], batch) :
              /\ rows' = [rows EXCEPT !["measurement"] = r.table]
              /\ reply' = BulkReply("measurement", batch, r)
              /\ UNCHANGED scenes /\ DatasetServiceIdle

CreatePipelineStates ==
    /\ Cardinality(StoredRows) <= MaxStored
    /\ \E batch \in Batches("pipeline_state") :
          \E r \in create_pipeline_states(rows["pipeline_state"], batch) :
              /\ rows' = [rows EXCEPT !["pipeline_state"] = r.table]
              /\ reply' = BulkReply("pipeline_state", batch, r)
              /\ UNCHANGED scenes /\ DatasetServiceIdle

NextBulk == CreatePartial \/ BulkCreateMeasurements \/ CreatePipelineStates

SpecBulk == InitBulk /\ [][NextBulk]_vars

\* the rows a step committed to the table of svc
Committed(svc) == rows'[svc] \ rows[svc]

\* C29: whenever a partial-success bulk create returns a result,
\* created + failed is the number of submitted items, ids has exactly
\* `created` entries, and exactly the rows named in ids were committed by
\* the call, a batch with an item failing at flush included; a batch larger
\* than BULK_INSERT_MAX_NUM is rejected with nothing stored.
C29_PartialCreateAccounts ==
    [][\A svc \in PartialServices : reply'.service = svc =>
          /\ reply'.outcome = "returned" =>
                /\ reply'.created + reply'.failed = reply'.submitted
                /\ Len(reply'.ids) = reply'.created
                /\ NoRepeats(reply'.ids)
                /\ Range(reply'.ids) = Committed(svc)
          /\ reply'.submitted > BULK_INSERT_MAX_NUM =>
                /\ reply'.outcome = "bad_request"
                /\ UNCHANGED rows]_vars

\* a batch of three whose second item failed at flush was answered
C29_Witness ==
    /\ reply.service \in PartialServices /\ reply.outcome = "returned"
    /\ reply.submitted = 3 /\ reply.flush_failed_at = 2

\* C30: bulk_create_measurements and create_pipeline_states commit every
\* submitted row or none; if any row fails (a reference to a row that does
\* not exist included) the call raises and no row of the batch is stored;
\* a batch larger than BULK_INSERT_MAX_NUM is rejected with nothing stored.
C30_AllOrNothing ==
    [][\A svc \in AllOrNothingServices : reply'.service = svc =>
          /\ Committed(svc) \in {{}, new_ids(rows[svc], reply'.submitted)}
          /\ rows[svc] \subseteq rows'[svc]
          /\ reply'.outcome = "returned" =>
                Committed(svc) = new_ids(rows[svc], reply'.submitted)
          /\ (~reply'.clean \/ reply'.submitted > BULK_INSERT_MAX_NUM) =>
                /\ reply'.outcome = "error"
                /\ UNCHANGED rows]_vars

\* a batch of measurements with a row the database refuses was answered
\* with an error, after an earlier batch had been stored
C30_Witness ==
    /\ reply.service = "measurement" /\ reply.outcome = "error"
    /\ ~reply.clean /\ reply.submitted >= 2
    /\ rows["measurement"] # {}


=============================================================================
